---- MODULE Spec2Model ----
(***************************************************************************)
(* The chunked-upload coordinator of r2-share (src/src/index.js): the      *)
(* prepare-upload, upload-chunk, complete-upload and list handlers of the  *)
(* worker, run against one R2 bucket.                                      *)
(*                                                                         *)
(* Strings that become object keys are sequences of their dot-separated    *)
(* segments: "u1.chunk.0" is <<"u1", "chunk", "0">>.  An optional value    *)
(* (a JSON field or a form field that may be missing) is <<>> when absent  *)
(* and <<v>> when present.  Object bodies are sequences of byte tokens.    *)
(***************************************************************************)
EXTENDS Integers, Sequences, FiniteSets, TLC

\* ---------------------------------------------------------------- bounds
MaxUploads == 2        \* upload ids known to the system
MaxChunks == 2         \* chunk indices 0..MaxChunks-1, chunk counts 1..MaxChunks
MaxCalls == 3          \* complete-upload requests, possibly concurrent
MaxRequests == 4       \* accepted client requests in one behaviour
MaxReplayRequests == 8 \* the same, for clients that replay a finished upload

\* ------------------------------------------------------ program constants
\* index.js:460  metadata.size < 100 * 1024 * 1024
Threshold == 100 * 1024 * 1024
\* index.js:300  limit: 1000
ListLimit == 1000
\* index.js:368, 490, 498  the default content type
DefaultContentType == "application/octet-stream"

\* ------------------------------------------------------------ input sets
IdPool == <<"u1", "u2", "u3", "u4">>
UploadIds == {IdPool[k] : k \in 1..MaxUploads}
\* the id a client makes up: prepare never returned it
ForeignId == IdPool[MaxUploads]
Indices == 0..(MaxChunks - 1)
ChunkBodies == {<<"x">>, <<"y">>}
ContentTypes == {<<>>, <<"application/pdf">>}
Sizes == {<<25000000>>, <<Threshold>>}
PrepareNames == {<<"a">>}
EmptyString == <<>>

VARIABLES
    store,    \* the bucket: key -> [body, contentType]
    issued,   \* upload ids returned by prepare-upload
    calls,    \* the complete-upload requests: slot -> activation record
    requests, \* the number of requests accepted so far
    uploads,  \* history: chunk key -> the first and the last bytes uploaded
              \* under it since it was last deleted
    refused   \* history: a prepare-upload or complete-upload request has been
              \* answered 400

vars == <<store, issued, calls, requests, uploads, refused>>
\* the handler returns the 400 response before it touches the bucket
BadRequest ==
    /\ refused' = TRUE
    /\ UNCHANGED <<store, issued, calls, requests, uploads>>
\* one more request is accepted
Accept == requests' = requests + 1

\* ------------------------------------------------------------ key scheme
MetaKey(uploadId) == <<uploadId, "meta">>
\* `${uploadId}.chunk.${index}` with index the text of the index
ChunkKey(uploadId, indexText) == <<uploadId, "chunk">> \o indexText
\* a number interpolated into a template literal
NumText(n) == <<ToString(n)>>
\* a form field interpolated into a template literal: a missing field is null
FieldText(field) == IF field = <<>> THEN <<"null">> ELSE field[1]

\* ------------------------------------------------------------ the bucket
Has(s, key) == key \in DOMAIN s
\* (mutant) a put that leaves an object already stored under the key as it is
BucketPutKeepFirst(s, key, body, contentType) ==
    IF key \in DOMAIN s
    THEN s
    ELSE [k \in DOMAIN s \cup {key} |->
            IF k = key THEN [body |-> body, contentType |-> contentType] ELSE s[k]]
\* FILE_BUCKET.put(key, body, {httpMetadata: {contentType}}): replaces the object
BucketPut(s, key, body, contentType) ==
    [k \in DOMAIN s \cup {key} |->
        IF k = key THEN [body |-> body, contentType |-> contentType] ELSE s[k]]
\* chunks 0..n-1 of an upload are all stored
AllPresent(s, uploadId, n) ==
    \A i \in 0..(n - 1) : Has(s, ChunkKey(uploadId, NumText(i)))
BucketDelete(s, key) == [k \in DOMAIN s \ {key} |-> s[k]]
IsChunkKeyOf(key, uploadId) ==
    Len(key) >= 3 /\ key[1] = uploadId /\ key[2] = "chunk"
ChunkObjects(s) == {k \in DOMAIN s : Len(k) >= 3 /\ k[2] = "chunk"}

\* ------------------------------------------------------ JSON of a session
\* JSON.stringify of the session record: a missing size is left out
JSONStringify(m) ==
    <<"{", m.uploadId, m.contentType>>
        \o (IF m.size = <<>> THEN <<"-">> ELSE <<ToString(m.size[1])>>)
        \o m.filename \o <<"}">>
ParseSize(text) ==
    IF \E sz \in Sizes : ToString(sz[1]) = text
    THEN {sz \in Sizes : ToString(sz[1]) = text}
    ELSE {}
\* JSON.parse: the set holding the parsed record, empty on a SyntaxError
JSONParse(body) ==
    IF /\ Len(body) >= 5
       /\ body[1] = "{"
       /\ body[Len(body)] = "}"
       /\ (body[4] = "-" \/ ParseSize(body[4]) # {})
    THEN {[uploadId |-> body[2],
           contentType |-> body[3],
           size |-> IF body[4] = "-" THEN <<>>
                    ELSE CHOOSE sz \in ParseSize(body[4]) : TRUE,
           filename |-> SubSeq(body, 5, Len(body) - 1)]}
    ELSE {}

\* ------------------------------------------------------------- helpers
RECURSIVE Flatten(_)
Flatten(seqs) ==
    IF seqs = <<>> THEN <<>> ELSE Head(seqs) \o Flatten(Tail(seqs))
\* (mutant) value === undefined: the empty string passes
Undefined(field) == field = <<>>
\* !value of JavaScript for an optional string
Falsy(field) == field = <<>> \/ field[1] = EmptyString
\* the same for an optional field held as plain text (an id, a content type)
FalsyText(field) == field = <<>> \/ field[1] = ""
\* value || fallback
OrElse(field, fallback) == IF FalsyText(field) THEN fallback ELSE field[1]

\* ------------------------------------------------------- prepare-upload
\* crypto.randomUUID(): an id nothing in the system has seen
Fresh(u) ==
    /\ u \notin issued
    /\ \A k \in DOMAIN store : k[1] # u
    /\ \A c \in DOMAIN calls : calls[c].pc = "idle" \/ calls[c].uploadId # u
RandomUUID == IdPool[CHOOSE k \in 1..MaxUploads :
                  /\ Fresh(IdPool[k])
                  /\ \A j \in 1..(k - 1) : ~Fresh(IdPool[j])]
\* the requests the clients of a scope may send: every well-formed one, and
\* one for each way of leaving the filename out
PrepareRequests(scope) ==
    [filename : {<<f>> : f \in PrepareNames},
     contentType : scope.contentTypes, size : scope.sizes]
        \cup [filename : {<<>>, <<EmptyString>>},
              contentType : {<<"application/pdf">>}, size : {<<25000000>>}]
SessionRecord(data, uploadId) ==
    [filename |-> data.filename[1],
     contentType |-> OrElse(data.contentType, DefaultContentType),
     size |-> data.size,
     uploadId |-> uploadId]
PrepareResponse(data, uploadId) ==
    IF Falsy(data.filename)
    THEN [status |-> 400, success |-> FALSE, uploadId |-> <<>>]
    ELSE [status |-> 200, success |-> TRUE, uploadId |-> <<uploadId>>]
PrepareUpload(data) ==
    IF Falsy(data.filename)
    THEN BadRequest
    ELSE /\ Accept
         /\ \E k \in 1..MaxUploads : Fresh(IdPool[k])
         /\ LET uploadId == RandomUUID IN
            /\ store' = BucketPut(store, MetaKey(uploadId),
                            JSONStringify(SessionRecord(data, uploadId)), <<>>)
            /\ issued' = issued \cup {uploadId}
         /\ UNCHANGED <<refused, calls, uploads>>

\* --------------------------------------------------------- upload-chunk
KnownIds(scope) == issued \cup (IF scope.foreign THEN {ForeignId} ELSE {})
ChunkRequests(scope) ==
    [chunk : {<<b>> : b \in scope.bodies},
     index : scope.indexFields,
     uploadId : {<<u>> : u \in KnownIds(scope)},
     filename : {<<f>> : f \in PrepareNames}]
        \cup {[chunk |-> <<>>, index |-> <<NumText(0)>>,
               uploadId |-> <<ForeignId>>, filename |-> <<<<"a">>>>],
              [chunk |-> <<<<"x">>>>, index |-> <<NumText(0)>>,
               uploadId |-> <<>>, filename |-> <<<<"a">>>>],
              [chunk |-> <<<<"x">>>>, index |-> <<NumText(0)>>,
               uploadId |-> <<ForeignId>>, filename |-> <<>>]}
\* !chunkBlob || index === undefined || !uploadId || !filename
\* (formData.get gives null, never undefined, for a missing field)
IndexIsUndefined(form) == FALSE
ChunkRequestRejected(form) ==
    \/ form.chunk = <<>>
    \/ IndexIsUndefined(form)
    \/ FalsyText(form.uploadId)
    \/ Falsy(form.filename)
ChunkResponse(form) ==
    IF ChunkRequestRejected(form)
    THEN [status |-> 400, success |-> FALSE]
    ELSE [status |-> 200, success |-> TRUE]

\* a chunk write or a cleanup delete by another request, seen by the calls in
\* flight whose session or chunks 0..chunks-1 it changes
Footprint(call) ==
    {MetaKey(call.uploadId)}
        \cup {ChunkKey(call.uploadId, NumText(i)) : i \in 0..(call.chunks - 1)}
Touch(cs, key, self) ==
    [c \in DOMAIN cs |->
        IF c # self /\ cs[c].pc \notin {"idle", "done"} /\ key \in Footprint(cs[c])
        THEN [cs[c] EXCEPT !.dirty = TRUE]
        ELSE cs[c]]
UploadChunk(form) ==
    IF ChunkRequestRejected(form)
    THEN UNCHANGED vars
    ELSE LET chunkKey == ChunkKey(form.uploadId[1], FieldText(form.index)) IN
         /\ Accept
         /\ store' = BucketPut(store, chunkKey, form.chunk[1],
                               <<"application/octet-stream">>)
         /\ calls' = Touch(calls, chunkKey, 0)
         /\ uploads' = [k \in DOMAIN uploads \cup {chunkKey} |->
                [first |-> IF k = chunkKey /\ k \notin DOMAIN uploads
                           THEN form.chunk[1] ELSE uploads[k].first,
                 last |-> IF k = chunkKey THEN form.chunk[1] ELSE uploads[k].last]]
         /\ UNCHANGED <<refused, issued>>
\* FILE_BUCKET.put throws: the handler answers 500 and nothing is stored
UploadChunkThrows(scope) ==
    /\ {form \in ChunkRequests(scope) : ~ChunkRequestRejected(form)} # {}
    /\ UNCHANGED vars

\* ------------------------------------------------------ complete-upload
IdleCall ==
    [pc |-> "idle", uploadId |-> "", filename |-> <<>>, chunks |-> 0,
     metadata |-> <<>>, path |-> "", i |-> 0, allChunks |-> <<>>,
     uploadPartPromises |-> <<>>, settled |-> <<>>, pending |-> {},
     outcome |-> "", missing |-> -1, wrote |-> FALSE,
     \* history: the total length of chunks 0..chunks-1 when the final object
     \* was put in place
     bytes |-> 0,
     \* history: another request changed the session or the chunks under the call
     dirty |-> FALSE,
     \* history: the call began after a call for the same upload answered success
     replay |-> FALSE]
\* the names a client may give the final object: plain ones and, in a scope
\* whose clients do so, the key of the session object of an upload they know
CompleteNames(scope) ==
    scope.names \cup (IF scope.collide THEN {MetaKey(u) : u \in issued} ELSE {})
CompleteRequests(scope) ==
    [filename : {<<f>> : f \in CompleteNames(scope)},
     uploadId : {<<u>> : u \in KnownIds(scope)},
     chunks : {<<n>> : n \in scope.counts}]
        \cup {[filename |-> <<>>, uploadId |-> <<ForeignId>>, chunks |-> <<1>>],
              [filename |-> <<EmptyString>>, uploadId |-> <<ForeignId>>, chunks |-> <<1>>],
              [filename |-> <<<<"a">>>>, uploadId |-> <<>>, chunks |-> <<1>>],
              [filename |-> <<<<"a">>>>, uploadId |-> <<ForeignId>>, chunks |-> <<>>]}
\* !filename || !uploadId || chunks === undefined
CompleteRequestRejected(data) ==
    Falsy(data.filename) \/ FalsyText(data.uploadId) \/ data.chunks = <<>>
\* the request has answered: what is left of it is its answer and the deletes
\* it has issued
Answered(call, outcome, index) ==
    [IdleCall EXCEPT !.pc = "done", !.uploadId = call.uploadId,
                     !.outcome = outcome, !.missing = index,
                     !.wrote = call.wrote, !.pending = call.pending,
                     !.replay = call.replay]
\* the catch block: the request ends with a 500 carrying the error
Fail(call, outcome, index) == Answered(call, outcome, index)
\* (mutant) the index reported counts from one
MissingChunkErrorOneBased(call) == Fail(call, "MissingChunk", call.i + 1)
\* (mutant) a missing chunk is passed over and the loop goes on
MissingChunkSkipped(call) ==
    IF call.i + 1 < call.chunks
    THEN [call EXCEPT !.i = @ + 1]
    ELSE [call EXCEPT !.i = @ + 1,
                      !.pc = IF call.path = "small" THEN "put" ELSE "await"]
\* throw new Error(`Chunk ${i} not found`)
MissingChunkError(call) == Fail(call, "MissingChunk", call.i)
StartComplete(c, data) ==
    /\ calls[c].pc = "idle"
    /\ c > 1 => calls[c - 1].pc # "idle"
    /\ IF CompleteRequestRejected(data)
       THEN BadRequest
       ELSE /\ calls' = [calls EXCEPT ![c] =
                    [IdleCall EXCEPT !.pc = "getMeta",
                                     !.replay = \E d \in DOMAIN calls :
                                         /\ calls[d].pc = "done"
                                         /\ calls[d].outcome = "success"
                                         /\ calls[d].uploadId = data.uploadId[1],
                                     !.uploadId = data.uploadId[1],
                                     !.filename = data.filename[1],
                                     !.chunks = data.chunks[1]]]
            /\ Accept
            /\ UNCHANGED <<refused, store, issued, uploads>>
\* where the chunk loop goes when i reaches chunks
AfterLoop(call) == IF call.path = "small" THEN "put" ELSE "await"
\* (mutant) the loop stops one index early: i < chunks - 1
LoopOrAfterShort(call) ==
    IF call.i + 1 < call.chunks
    THEN call
    ELSE [call EXCEPT !.pc = AfterLoop(call)]
\* for (let i = 0; i < chunks; i++)
LoopOrAfter(call) ==
    IF call.i < call.chunks
    THEN call
    ELSE [call EXCEPT !.pc = AfterLoop(call)]
\* metadata.size < 100 * 1024 * 1024; undefined < n is false
IsSmall(metadata) == metadata.size # <<>> /\ metadata.size[1] < Threshold
GetMeta(c) ==
    LET call == calls[c]
        metaKey == MetaKey(call.uploadId) IN
    /\ call.pc = "getMeta"
    /\ calls' = [calls EXCEPT ![c] =
          IF ~Has(store, metaKey)
          THEN Fail(call, "SessionNotFound", -1)
          ELSE IF JSONParse(store[metaKey].body) = {}
          THEN Fail(call, "SyntaxError", -1)
          ELSE LET metadata == CHOOSE m \in JSONParse(store[metaKey].body) : TRUE IN
               IF IsSmall(metadata)
               THEN LoopOrAfter([call EXCEPT !.metadata = <<metadata>>,
                                             !.path = "small", !.pc = "read"])
               ELSE [call EXCEPT !.metadata = <<metadata>>,
                                 !.path = "large", !.pc = "create"]]
    /\ UNCHANGED <<refused, store, issued, requests, uploads>>
\* (mutant) a pass of the loop that deletes the chunk it has read
ReadChunkAndDelete(c) ==
    LET call == calls[c]
        chunkKey == ChunkKey(call.uploadId, NumText(call.i)) IN
    /\ call.pc = "read"
    /\ calls' = [calls EXCEPT ![c] =
          IF ~Has(store, chunkKey)
          THEN MissingChunkError(call)
          ELSE LoopOrAfter([call EXCEPT
                    !.allChunks = Append(@, store[chunkKey].body),
                    !.i = @ + 1])]
    /\ store' = BucketDelete(store, chunkKey)
    /\ UNCHANGED <<refused, issued, requests, uploads>>
\* small path: one pass of the loop that reads the chunks
ReadChunk(c) ==
    LET call == calls[c]
        chunkKey == ChunkKey(call.uploadId, NumText(call.i)) IN
    /\ call.pc = "read"
    /\ calls' = [calls EXCEPT ![c] =
          IF ~Has(store, chunkKey)
          THEN MissingChunkError(call)
          ELSE LoopOrAfter([call EXCEPT
                    !.allChunks = Append(@, store[chunkKey].body),
                    !.i = @ + 1])]
    /\ UNCHANGED <<refused, store, issued, requests, uploads>>
\* the keys cleanupChunks deletes
CleanupKeys(uploadId, chunks) ==
    {ChunkKey(uploadId, NumText(i)) : i \in 0..(chunks - 1)}
        \cup {MetaKey(uploadId)}
\* the total length of the chunk objects 0..n-1 of an upload
RECURSIVE StoredBytes(_, _)
StoredBytes(uploadId, n) ==
    IF n = 0 THEN 0
    ELSE StoredBytes(uploadId, n - 1)
            + (IF Has(store, ChunkKey(uploadId, NumText(n - 1)))
               THEN Len(store[ChunkKey(uploadId, NumText(n - 1))].body)
               ELSE 0)
\* the final object is in place: cleanupChunks issues every delete at once
EnterCleanup(call) ==
    [call EXCEPT !.pc = "cleanup", !.wrote = TRUE,
                 !.bytes = StoredBytes(call.uploadId, call.chunks),
                 !.pending = CleanupKeys(call.uploadId, call.chunks),
                 !.metadata = <<>>, !.i = 0, !.allChunks = <<>>,
                 !.uploadPartPromises = <<>>]
FinalContentType(call) == <<OrElse(<<call.metadata[1].contentType>>, DefaultContentType)>>
\* the chunks set one after the other into one buffer
CombinedArray(call) == Flatten(call.allChunks)
PutFinal(c) ==
    LET call == calls[c] IN
    /\ call.pc = "put"
    /\ store' = BucketPut(store, call.filename, CombinedArray(call),
                          FinalContentType(call))
    /\ calls' = Touch([calls EXCEPT ![c] = EnterCleanup(call)], call.filename, c)
    /\ UNCHANGED <<refused, issued, requests, uploads>>

\* large path: createMultipartUpload; the object is not visible until complete
CreateMultipartUpload(c) ==
    LET call == calls[c] IN
    /\ call.pc = "create"
    /\ calls' = [calls EXCEPT ![c] = LoopOrAfter([call EXCEPT !.pc = "mread"])]
    /\ UNCHANGED <<refused, store, issued, requests, uploads>>
\* large path: one pass of the loop: read chunk i, start the upload of part i+1
ReadPart(c) ==
    LET call == calls[c]
        chunkKey == ChunkKey(call.uploadId, NumText(call.i)) IN
    /\ call.pc = "mread"
    /\ calls' = [calls EXCEPT ![c] =
          IF ~Has(store, chunkKey)
          THEN MissingChunkError(call)
          ELSE LoopOrAfter([call EXCEPT
                    !.uploadPartPromises = Append(@,
                        [partNumber |-> call.i + 1,
                         chunkData |-> store[chunkKey].body,
                         state |-> "pending"]),
                    !.i = @ + 1])]
    /\ UNCHANGED <<refused, store, issued, requests, uploads>>
InFlight(call, k) ==
    /\ call.pc \in {"mread", "await"}
    /\ k \in 1..Len(call.uploadPartPromises)
    /\ call.uploadPartPromises[k].state = "pending"
\* a part upload finishes, in whatever order the bucket answers
UploadPartFulfilled(c, k) ==
    LET call == calls[c] IN
    /\ InFlight(call, k)
    /\ calls' = [calls EXCEPT ![c] =
          [call EXCEPT !.uploadPartPromises[k].state = "fulfilled",
                       !.settled = Append(@, call.uploadPartPromises[k].partNumber)]]
    /\ UNCHANGED <<refused, store, issued, requests, uploads>>
UploadPartRejected(c, k) ==
    LET call == calls[c] IN
    /\ InFlight(call, k)
    /\ calls' = [calls EXCEPT ![c] =
          [call EXCEPT !.uploadPartPromises[k].state = "rejected"]]
    /\ UNCHANGED <<refused, store, issued, requests, uploads>>
\* (mutant) Promise.allSettled in place of Promise.all: the wait is over when
\* no part upload is pending
AllSettled(call) ==
    \A k \in 1..Len(call.uploadPartPromises) :
        call.uploadPartPromises[k].state # "pending"
\* every part upload has succeeded: Promise.all resolves
AllFulfilled(call) ==
    \A k \in 1..Len(call.uploadPartPromises) :
        call.uploadPartPromises[k].state = "fulfilled"
SomeRejected(call) ==
    \E k \in 1..Len(call.uploadPartPromises) :
        call.uploadPartPromises[k].state = "rejected"
\* await Promise.all(uploadPartPromises) throws on the first rejection
AwaitPartsRejected(c) ==
    LET call == calls[c] IN
    /\ call.pc = "await"
    /\ SomeRejected(call)
    /\ calls' = [calls EXCEPT ![c] = Fail(call, "ReassemblyFailed", -1)]
    /\ UNCHANGED <<refused, store, issued, requests, uploads>>
\* (mutant) the parts listed in the order in which their uploads finished
UploadedPartsAsSettled(call) == call.settled
\* Promise.all gives the results in the order of the promises it was given
UploadedParts(call) ==
    [k \in 1..Len(call.uploadPartPromises) |-> call.uploadPartPromises[k].partNumber]
PartData(call, partNumber) ==
    (CHOOSE p \in {call.uploadPartPromises[k] : k \in 1..Len(call.uploadPartPromises)} :
        p.partNumber = partNumber).chunkData
\* multipartUpload.complete(parts): the parts' bytes in the order of the list
MultipartBody(call, parts) ==
    Flatten([k \in 1..Len(parts) |-> PartData(call, parts[k])])
CompleteMultipart(c) ==
    LET call == calls[c] IN
    /\ call.pc = "await"
    /\ AllFulfilled(call)
    /\ store' = BucketPut(store, call.filename,
                          MultipartBody(call, UploadedParts(call)),
                          FinalContentType(call))
    /\ calls' = Touch([calls EXCEPT ![c] = EnterCleanup(call)], call.filename, c)
    /\ UNCHANGED <<refused, issued, requests, uploads>>

\* cleanupChunks: one of the deletes issued at once is carried out
Delete(c, key) ==
    LET call == calls[c]
        left == call.pending \ {key} IN
    /\ key \in call.pending
    /\ store' = BucketDelete(store, key)
    /\ calls' = Touch([calls EXCEPT ![c] =
                    IF call.pc = "cleanup" /\ left = {}
                    THEN Answered([call EXCEPT !.pending = left], "success", -1)
                    ELSE [call EXCEPT !.pending = left]],
                  key, c)
    /\ uploads' = [k \in DOMAIN uploads \ {key} |-> uploads[k]]
    /\ UNCHANGED <<refused, issued, requests>>
\* a delete throws: Promise.all(deletePromises) rejects, the catch block answers
\* 500; the deletes already issued go on
DeleteRejected(c, key) ==
    LET call == calls[c]
        left == call.pending \ {key} IN
    /\ key \in call.pending
    /\ calls' = [calls EXCEPT ![c] =
                    IF call.pc = "cleanup"
                    THEN Fail([call EXCEPT !.pending = left], "CleanupFailed", -1)
                    ELSE [call EXCEPT !.pending = left]]
    /\ UNCHANGED <<refused, store, issued, requests, uploads>>
\* the bucket operation the call waits for throws (get, put,
\* createMultipartUpload, complete)
BucketThrows(c) ==
    LET call == calls[c] IN
    /\ \/ call.pc \in {"getMeta", "read", "put", "create", "mread"}
       \/ call.pc = "await" /\ AllFulfilled(call)
    /\ calls' = [calls EXCEPT ![c] = Fail(call, "ReassemblyFailed", -1)]
    /\ UNCHANGED <<refused, store, issued, requests, uploads>>

\* ----------------------------------------------------------------- list
\* bucket.list({limit: 1000}): the keys of at most limit objects
Listed(s) ==
    IF Cardinality(DOMAIN s) <= ListLimit
    THEN DOMAIN s
    ELSE CHOOSE keys \in SUBSET DOMAIN s : Cardinality(keys) = ListLimit
\* (mutant) the test the comment describes: the key begins with "chunk."
StartsWithChunk(key) == Len(key) >= 2 /\ key[1] = "chunk"
\* object.key.includes('.chunk.')
IncludesChunk(key) == \E i \in 2..(Len(key) - 1) : key[i] = "chunk"
\* object.key.endsWith('.meta')
EndsWithMeta(key) == Len(key) >= 2 /\ key[Len(key)] = "meta"
\* the files of the response of listFiles
ListFiles(s) ==
    {[name |-> key, size |-> Len(s[key].body)] :
        key \in {k \in Listed(s) : ~IncludesChunk(k) /\ ~EndsWithMeta(k)}}
\* GET /list: answers with ListFiles(store) and changes nothing
ListFilesRequest == UNCHANGED vars

\* ------------------------------------------------------------ the system
EmptyBucket == [k \in {} |-> <<>>]
Init ==
    /\ store = EmptyBucket
    /\ issued = {}
    /\ calls = [c \in 1..MaxCalls |-> IdleCall]
    /\ requests = 0
    /\ uploads = [k \in {} |-> <<>>]
    /\ refused = FALSE

SmallPathStep(c) ==
    \/ GetMeta(c)
    \/ ReadChunk(c)
    \/ PutFinal(c)
    \/ \E key \in calls[c].pending : Delete(c, key)
LargePathStep(c) ==
    \/ CreateMultipartUpload(c)
    \/ ReadPart(c)
    \/ \E k \in 1..MaxChunks : UploadPartFulfilled(c, k)
    \/ CompleteMultipart(c)
CallFault(c) ==
    \/ BucketThrows(c)
    \/ \E k \in 1..MaxChunks : UploadPartRejected(c, k)
    \/ AwaitPartsRejected(c)
    \/ \E key \in calls[c].pending : DeleteRejected(c, key)
\* no complete-upload request is being served
Quiet == \A c \in 1..MaxCalls : calls[c].pc \in {"idle", "done"} /\ calls[c].pending = {}
\* in a race the uploads are over when the first complete-upload is sent, for
\* an upload whose chunks are all stored; the calls that follow are for the
\* same upload
Uploading(scope) == scope.race => calls[1].pc = "idle"
Racing(scope, data) ==
    (scope.race /\ ~CompleteRequestRejected(data)) =>
        IF calls[1].pc = "idle"
        THEN AllPresent(store, data.uploadId[1], data.chunks[1])
        ELSE data.uploadId[1] = calls[1].uploadId
Request(scope) ==
    /\ requests < scope.budget
    /\ scope.serial => Quiet
    /\ \/ \E data \in PrepareRequests(scope) :
            Uploading(scope) /\ PrepareUpload(data)
       \/ \E form \in ChunkRequests(scope) :
            Uploading(scope) /\ UploadChunk(form)
       \/ \E c \in 1..MaxCalls :
            \E data \in CompleteRequests(scope) :
                Racing(scope, data) /\ StartComplete(c, data)

\* any client: every input the handlers tell apart, a few requests deep
General ==
    [budget |-> MaxRequests,
     contentTypes |-> ContentTypes,
     sizes |-> Sizes,
     bodies |-> ChunkBodies,
     indexFields |-> {<<>>} \cup {<<NumText(i)>> : i \in Indices},
     counts |-> 1..MaxChunks,
     names |-> {<<"a">>, <<"b">>, <<"n", "meta">>},
     foreign |-> TRUE,
     collide |-> TRUE,
     serial |-> FALSE,
     race |-> FALSE]
NextReliable ==
    \/ Request(General)
    \/ ListFilesRequest
    \/ \E c \in 1..MaxCalls : SmallPathStep(c)
    \/ \E c \in 1..MaxCalls : LargePathStep(c)
Next ==
    \/ NextReliable
    \/ UploadChunkThrows(General)
    \/ \E c \in 1..MaxCalls : CallFault(c)


\* a client that sends, as chunk bytes, the JSON of a session record
ForgedSession ==
    JSONStringify([filename |-> <<"a">>, contentType |-> "application/pdf",
                   size |-> <<25000000>>, uploadId |-> IdPool[1]])
\* clients that go on after an upload has been completed: one-chunk small
\* uploads, many requests deep, each request sent after the answer to the one
\* before, on a bucket that does not fail
Replay ==
    [budget |-> MaxReplayRequests,
     contentTypes |-> {<<"application/pdf">>},
     sizes |-> {<<25000000>>},
     bodies |-> {ForgedSession, <<"y">>},
     indexFields |-> {<<NumText(0)>>},
     counts |-> {1},
     names |-> {<<"a">>},
     foreign |-> FALSE,
     collide |-> TRUE,
     serial |-> TRUE,
     race |-> FALSE]
NextReplay ==
    \/ Request(Replay)
    \/ \E c \in 1..MaxCalls : SmallPathStep(c)

\* clients that complete one upload twice at once: a full upload of MaxChunks
\* chunks on either path, then complete-upload calls for it with every chunk
\* stored when the first is sent, on a bucket that does not fail
RaceRequests == MaxChunks + 3
Race ==
    [budget |-> RaceRequests,
     contentTypes |-> {<<"application/pdf">>},
     sizes |-> Sizes,
     bodies |-> ChunkBodies,
     indexFields |-> {<<NumText(i)>> : i \in Indices},
     counts |-> {MaxChunks},
     names |-> {<<"a">>},
     foreign |-> FALSE,
     collide |-> FALSE,
     serial |-> FALSE,
     race |-> TRUE]
NextRace ==
    \/ Request(Race)
    \/ \E c \in 1..MaxCalls : SmallPathStep(c)
    \/ \E c \in 1..MaxCalls : LargePathStep(c)

Spec == Init /\ [][Next]_vars
SpecReliable == Init /\ [][NextReliable]_vars
SpecReplay == Init /\ [][NextReplay]_vars
SpecRace == Init /\ [][NextRace]_vars

\* ======================================================================
\* The claims
\* ======================================================================
\* the step by which call c puts the final object in place (small path: put;
\* large path: complete of the multipart upload)
Reassembled(c) == calls[c].pc \in {"put", "await"} /\ calls'[c].pc = "cleanup"
\* the bodies of chunks 0..n-1 of an upload, in ascending index order
ChunksInOrder(s, uploadId, n) ==
    [k \in 1..n |-> s[ChunkKey(uploadId, NumText(k - 1))].body]

\* C1: whenever a complete-upload call puts the final object in place (on
\* either path), and no other request changed the upload's chunks while the
\* call ran, chunks 0..N-1 are all stored and the object written under the
\* call's filename is their concatenation in ascending index order, whatever
\* the order in which the chunks arrived and the part uploads finished.
C1_OrderedConcatenation ==
    [][\A c \in 1..MaxCalls :
        (Reassembled(c) /\ ~calls[c].dirty) =>
            /\ AllPresent(store, calls[c].uploadId, calls[c].chunks)
            /\ Has(store', calls[c].filename)
            /\ store'[calls[c].filename].body =
                 Flatten(ChunksInOrder(store, calls[c].uploadId, calls[c].chunks))]_vars
\* C1 witness: a two-chunk multipart completion whose second part finished
\* first has just written "x" then "y"
C1_Witness ==
    \E c \in 1..MaxCalls :
        /\ calls[c].pc = "cleanup"
        /\ calls[c].path = "large"
        /\ calls[c].chunks = 2
        /\ calls[c].settled = <<2, 1>>
        /\ ~calls[c].dirty
        /\ calls[c].pending = CleanupKeys(calls[c].uploadId, 2)
        /\ Has(store, calls[c].filename)
        /\ store[calls[c].filename].body = <<"x", "y">>
        /\ AllPresent(store, calls[c].uploadId, 2)
        /\ store[ChunkKey(calls[c].uploadId, NumText(0))].body = <<"x">>
        /\ store[ChunkKey(calls[c].uploadId, NumText(1))].body = <<"y">>

\* a key of the transient objects of an upload: its session or one of its chunks
IsTransientKeyOf(key, uploadId) ==
    \/ key = MetaKey(uploadId)
    \/ \E i \in Indices : key = ChunkKey(uploadId, NumText(i))
\* C2: once a complete-upload call for an upload has answered success, the
\* bucket holds neither the upload's session object nor any chunk object of
\* the upload, whatever its index.
C2_NoTransientAfterSuccess ==
    \A c \in 1..MaxCalls :
        (calls[c].pc = "done" /\ calls[c].outcome = "success") =>
            \A key \in DOMAIN store : ~IsTransientKeyOf(key, calls[c].uploadId)

\* the step by which call c answers or puts the final object in place
Settles(c) ==
    /\ calls[c].pc \notin {"idle", "done", "cleanup"}
    /\ calls'[c].pc \in {"done", "cleanup"}
\* C3 as claimed: a complete-upload call fails with MissingChunk if and only
\* if some index in [0, N) has no chunk object at the time of the call (the
\* upload's objects being left alone by other requests while the call runs).
C3_MissingChunkIffAnyCall ==
    [][\A c \in 1..MaxCalls :
        (Settles(c) /\ ~calls[c].dirty) =>
            (calls'[c].outcome = "MissingChunk"
                <=> ~AllPresent(store, calls[c].uploadId, calls[c].chunks))]_vars
\* C3 as amended: for a call that has found and parsed its session and during
\* which no bucket operation fails, the call fails with MissingChunk if and
\* only if some index in [0, N) has no chunk object at the time of the call;
\* otherwise it goes on to put the final object in place.
C3_MissingChunkIff ==
    [][\A c \in 1..MaxCalls :
        (/\ Settles(c)
         /\ ~calls[c].dirty
         /\ calls[c].pc \in {"read", "put", "create", "mread", "await"}
         /\ calls'[c].outcome # "ReassemblyFailed") =>
            (calls'[c].outcome = "MissingChunk"
                <=> ~AllPresent(store, calls[c].uploadId, calls[c].chunks))]_vars
\* C3 witness: a call has answered MissingChunk for index 1 of an upload whose
\* session and chunk 0 are stored and whose chunk 1 is not
C3_Witness ==
    \E c \in 1..MaxCalls :
        /\ calls[c].pc = "done"
        /\ calls[c].outcome = "MissingChunk"
        /\ calls[c].missing = 1
        /\ Has(store, MetaKey(calls[c].uploadId))
        /\ Has(store, ChunkKey(calls[c].uploadId, NumText(0)))
        /\ ~Has(store, ChunkKey(calls[c].uploadId, NumText(1)))

SmallestMissing(s, uploadId, n) ==
    CHOOSE i \in 0..(n - 1) :
        /\ ~Has(s, ChunkKey(uploadId, NumText(i)))
        /\ \A j \in 0..(i - 1) : Has(s, ChunkKey(uploadId, NumText(j)))
\* C4: the step by which a call answers MissingChunk changes nothing in the
\* bucket, the call has written no final object before it, and the index it
\* reports is the smallest index in [0, N) without a chunk object (the
\* upload's chunks being left alone by other requests while the call runs);
\* on both paths.
C4_SmallestMissingNoWrite ==
    [][\A c \in 1..MaxCalls :
        (/\ calls[c].pc # "done"
         /\ calls'[c].pc = "done"
         /\ calls'[c].outcome = "MissingChunk") =>
            /\ store' = store
            /\ ~calls[c].wrote /\ ~calls'[c].wrote
            /\ calls[c].path \in {"small", "large"}
            /\ ~calls[c].dirty =>
                  calls'[c].missing =
                      SmallestMissing(store, calls[c].uploadId, calls[c].chunks)]_vars
\* C4 witness: on the large path (the session declares a size at the
\* threshold), with chunks 0 and 1 both missing, a call has reported index 0
\* and the bucket holds nothing but the session
C4_Witness ==
    \E c \in 1..MaxCalls :
        /\ calls[c].pc = "done"
        /\ calls[c].outcome = "MissingChunk"
        /\ calls[c].missing = 0
        /\ ~calls[c].wrote
        /\ DOMAIN store = {MetaKey(calls[c].uploadId)}
        /\ \E m \in JSONParse(store[MetaKey(calls[c].uploadId)].body) :
                m.size = <<Threshold>>

\* C5: no chunk object is ever stored for an upload id without a session
\* object: upload-chunk writes nothing when `{uploadId}.meta` is absent.
C5_NoChunkWithoutSession ==
    \A key \in DOMAIN store :
        (Len(key) >= 3 /\ key[2] = "chunk") => Has(store, MetaKey(key[1]))

\* C6: a call that has put the final object in place answers success, also
\* when a delete of the cleanup fails.
C6_CleanupFailureNotSurfaced ==
    \A c \in 1..MaxCalls :
        (calls[c].pc = "done" /\ calls[c].wrote) => calls[c].outcome = "success"

\* C7: a complete-upload call that begins after a call for the same upload
\* has answered success never puts a final object in place: the final object
\* is neither written again nor modified by it.
C7_NoSecondReassembly ==
    \A c \in 1..MaxCalls : calls[c].replay => ~calls[c].wrote

\* C8: on the large path the final object is put in place only by a step
\* taken when the uploads of all N parts have been started and every one of
\* them has succeeded; while the upload of some part has failed the call
\* cannot put the final object in place, and it ends without success and
\* without having written.
C8_FinalizeAfterAllParts ==
    [][\A c \in 1..MaxCalls :
        calls[c].path = "large" =>
            /\ Reassembled(c) =>
                /\ Len(calls[c].uploadPartPromises) = calls[c].chunks
                /\ \A k \in 1..calls[c].chunks :
                    /\ calls[c].uploadPartPromises[k].state = "fulfilled"
                    /\ calls[c].uploadPartPromises[k].partNumber = k
            /\ (\E k \in 1..Len(calls[c].uploadPartPromises) :
                    calls[c].uploadPartPromises[k].state = "rejected") =>
                /\ ~Reassembled(c)
                /\ calls'[c].pc # "cleanup"
                /\ calls'[c].outcome # "success"
                /\ ~calls'[c].wrote]_vars
\* C8 witness: a two-part completion waits with part 1 uploaded and part 2
\* failed, and there is no object under its filename
C8_Witness ==
    \E c \in 1..MaxCalls :
        /\ calls[c].pc = "await"
        /\ calls[c].chunks = 2
        /\ calls[c].uploadPartPromises[1].state = "fulfilled"
        /\ calls[c].uploadPartPromises[2].state = "rejected"
        /\ ~Has(store, calls[c].filename)

\* the bytes last uploaded under chunks 0..n-1 of an upload
LastUploaded(uploadId, n) ==
    [k \in 1..n |-> uploads[ChunkKey(uploadId, NumText(k - 1))].last]
\* C9: a chunk object holds the bytes last uploaded under its key, so the
\* final object a call puts in place is made, position by position, of the
\* bytes last uploaded for each index (no other request changing the upload's
\* chunks while the call runs); and uploading again the bytes a chunk object
\* already holds leaves the bucket as it was.
C9_LastUploadWins ==
    [][/\ \A key \in ChunkObjects(store') :
            key \in DOMAIN uploads' /\ store'[key].body = uploads'[key].last
       /\ \A c \in 1..MaxCalls :
            (Reassembled(c) /\ ~calls[c].dirty) =>
                /\ \A i \in 0..(calls[c].chunks - 1) :
                      ChunkKey(calls[c].uploadId, NumText(i)) \in DOMAIN uploads
                /\ store'[calls[c].filename].body =
                      Flatten(LastUploaded(calls[c].uploadId, calls[c].chunks))
       /\ \A form \in ChunkRequests(General) :
            (/\ requests' # requests
             /\ ~ChunkRequestRejected(form)
             /\ Has(store, ChunkKey(form.uploadId[1], FieldText(form.index)))
             /\ store[ChunkKey(form.uploadId[1], FieldText(form.index))].body
                    = form.chunk[1]
             /\ UploadChunk(form)) =>
                store' = store]_vars
\* C9 witness: a call has put in place the bytes "y" of a one-chunk upload
\* whose chunk 0 was first uploaded as "x" and then again as "y"
C9_Witness ==
    \E c \in 1..MaxCalls :
        LET key == ChunkKey(calls[c].uploadId, NumText(0)) IN
        /\ calls[c].pc = "cleanup"
        /\ calls[c].chunks = 1
        /\ ~calls[c].dirty
        /\ calls[c].pending = CleanupKeys(calls[c].uploadId, 1)
        /\ key \in DOMAIN uploads
        /\ uploads[key] = [first |-> <<"x">>, last |-> <<"y">>]
        /\ store[key].body = <<"y">>
        /\ Has(store, calls[c].filename)
        /\ store[calls[c].filename].body = <<"y">>

\* C10: the step by which a call puts the final object in place writes one
\* object, under the filename recorded in the upload's session, with the
\* content type recorded in the session.
C10_SessionFilenameAndType ==
    [][\A c \in 1..MaxCalls :
        Reassembled(c) =>
            \A key \in DOMAIN store' :
                (key \notin DOMAIN store \/ store'[key] # store[key]) =>
                    /\ key = calls[c].metadata[1].filename
                    /\ store'[key].contentType =
                          <<calls[c].metadata[1].contentType>>]_vars

\* the forms of the transient keys: `{uploadId}.meta` and `{uploadId}.chunk.{index}`
IsSessionKeyForm(key) == Len(key) = 2 /\ key[2] = "meta"
IsChunkKeyForm(key) == Len(key) >= 3 /\ key[2] = "chunk"
\* C11: in every reachable state of the bucket, the files listFiles answers
\* with hold no key of the form `{uploadId}.chunk.{index}` and no key of the
\* form `{uploadId}.meta`, and none of the session and chunk keys the
\* handlers build.
C11_ListHidesTransient ==
    \A entry \in ListFiles(store) :
        /\ ~IsSessionKeyForm(entry.name)
        /\ ~IsChunkKeyForm(entry.name)
        /\ \A u \in UploadIds :
            /\ entry.name # MetaKey(u)
            /\ \A field \in General.indexFields :
                 entry.name # ChunkKey(u, FieldText(field))
\* C11 witness: a cleanup has failed with the session object deleted and
\* chunk 0 left behind, a chunk of an upload without session lies abandoned,
\* and the list holds the final object alone
C11_Witness ==
    \E c \in 1..MaxCalls :
        /\ calls[c].pc = "done"
        /\ calls[c].outcome = "CleanupFailed"
        /\ calls[c].pending = {}
        /\ ~Has(store, MetaKey(calls[c].uploadId))
        /\ Has(store, ChunkKey(calls[c].uploadId, NumText(0)))
        /\ \E key \in ChunkObjects(store) : key[1] # calls[c].uploadId
        /\ ListFiles(store) = {[name |-> <<"a">>, size |-> 1]}

\* prepare-upload accepts the filename: it is present and not empty
AcceptedByPrepare(filename) ==
    PrepareResponse([filename |-> <<filename>>, contentType |-> <<>>,
                     size |-> <<>>], IdPool[1]).success
\* C12: when a complete-upload call answers success, a list made then holds an
\* entry whose name is the call's filename and whose size is the total length
\* of chunks 0..N-1, for every filename prepare-upload accepts.  (Stated for
\* the only complete-upload call made so far, no request having changed the
\* upload's objects during the call, and a filename that is not the key of a
\* session.)
C12_ListShowsCompletedFile ==
    [][\A c \in 1..MaxCalls :
        (/\ calls[c].pc = "cleanup"
         /\ calls'[c].pc = "done"
         /\ calls'[c].outcome = "success"
         /\ ~calls[c].dirty
         /\ \A d \in 1..MaxCalls \ {c} : calls[d].pc = "idle"
         /\ AcceptedByPrepare(calls[c].filename)
         /\ \A u \in issued : calls[c].filename # MetaKey(u)) =>
            [name |-> calls[c].filename, size |-> calls[c].bytes]
                \in ListFiles(store')]_vars

\* the step is one of call c: its record changes in more than the history of
\* what other requests did to it
OwnStep(c) ==
    [calls'[c] EXCEPT !.dirty = FALSE] # [calls[c] EXCEPT !.dirty = FALSE]
\* the session and chunk objects of the uploads prepare-upload has issued,
\* other than upload uploadId
TransientOfOthers(s, uploadId) ==
    {key \in DOMAIN s :
        /\ IsSessionKeyForm(key) \/ IsChunkKeyForm(key)
        /\ key[1] \in issued
        /\ key[1] # uploadId}
\* a step leaves these objects in place and as they are
Untouched(keys) ==
    \A key \in keys : key \in DOMAIN store' /\ store'[key] = store[key]
\* C13: a prepare-upload gives an upload id that was not given before and puts
\* a session object of its own, leaving every other object as it is; and no
\* step of an upload-chunk or of a complete-upload call on one upload id
\* overwrites or deletes a session or chunk object of another upload, however
\* the operations of the uploads interleave.
C13_SessionsIndependent ==
    [][/\ issued' # issued =>
            \E u \in issued' \ issued :
                /\ issued' = issued \cup {u}
                /\ ~Has(store, MetaKey(u))
                /\ Has(store', MetaKey(u))
                /\ Untouched(DOMAIN store)
       /\ \A form \in ChunkRequests(General) :
            (~ChunkRequestRejected(form) /\ UploadChunk(form)) =>
                Untouched(TransientOfOthers(store, form.uploadId[1]))
       /\ \A c \in 1..MaxCalls :
            OwnStep(c) =>
                Untouched(TransientOfOthers(store, calls'[c].uploadId))]_vars

\* C14: a prepare-upload whose filename is absent or empty is answered 400
\* without an upload id and a complete-upload whose filename, upload id or
\* chunk count is missing is answered 400: neither changes the bucket, the
\* set of sessions or the calls that read and write it.  (Only a step that
\* takes a request or answers 400 can be such a request.)
C14_InvalidRequestNoEffect ==
    [][(requests' # requests \/ refused' # refused) =>
        /\ \A data \in PrepareRequests(General) :
            (data.filename \in {<<>>, <<EmptyString>>} /\ PrepareUpload(data)) =>
                /\ UNCHANGED <<store, issued, calls, uploads>>
                /\ PrepareResponse(data, IdPool[1]) =
                      [status |-> 400, success |-> FALSE, uploadId |-> <<>>]
        /\ \A c \in 1..MaxCalls : \A data \in CompleteRequests(General) :
            (/\ \/ data.filename \in {<<>>, <<EmptyString>>}
                \/ data.uploadId = <<>>
                \/ data.chunks = <<>>
             /\ StartComplete(c, data)) =>
                UNCHANGED <<store, issued, calls, uploads>>]_vars
\* C14 witness: a request has been answered 400 and the bucket is as it was
\* before any request; and one has been answered 400 with a session and a
\* chunk stored
C14_Witness ==
    /\ refused
    /\ \/ /\ store = EmptyBucket
          /\ issued = {}
          /\ \A c \in 1..MaxCalls : calls[c] = IdleCall
       \/ /\ issued # {}
          /\ \E u \in issued :
                Has(store, MetaKey(u)) /\ Has(store, ChunkKey(u, NumText(0)))
          /\ \A c \in 1..MaxCalls : calls[c] = IdleCall

\* the positions of a call before its final object is put in place
BeforeReassembly == {"getMeta", "read", "put", "create", "mread", "await"}
\* C15: a complete-upload call that fails with a missing chunk or with a
\* failure of the bucket during a chunk read, the put, a part upload or the
\* finalize has changed nothing in the bucket: none of its steps before the
\* final object is in place writes or deletes an object, and it fails before
\* writing.  When it fails at the put or the finalize (no other request having
\* changed the upload's objects), the session and chunks 0..N-1 are all
\* stored, so the call can be made again without uploading any chunk.
C15_FailureLeavesUploadIntact ==
    [][\A c \in 1..MaxCalls :
        /\ (OwnStep(c) /\ calls'[c].pc \in BeforeReassembly) => store' = store
        /\ (/\ OwnStep(c)
            /\ calls'[c].pc = "done"
            /\ calls'[c].outcome \in {"MissingChunk", "ReassemblyFailed"}) =>
                /\ calls[c].pc \in BeforeReassembly
                /\ store' = store
                /\ ~calls'[c].wrote
                /\ (/\ calls[c].pc \in {"put", "await"}
                    /\ ~calls[c].dirty) =>
                        /\ Has(store', MetaKey(calls[c].uploadId))
                        /\ AllPresent(store', calls[c].uploadId, calls[c].chunks)]_vars
\* C15 witness: a bucket operation of the only call made, for a small upload,
\* has failed; the call has answered ReassemblyFailed and the bucket holds the
\* session and chunks 0 and 1, and nothing else
C15_Witness ==
    /\ calls[1].pc = "done"
    /\ calls[1].outcome = "ReassemblyFailed"
    /\ ~calls[1].wrote
    /\ calls[2].pc = "idle"
    /\ DOMAIN store = CleanupKeys(calls[1].uploadId, 2)
    /\ \E m \in JSONParse(store[MetaKey(calls[1].uploadId)].body) :
            m.size = <<25000000>>

\* the steps of call c that change the bucket or a multipart upload in it: the
\* put of the final object, createMultipartUpload, the start of an uploadPart
PutStarts(c) == calls[c].pc = "put" /\ calls'[c].pc = "cleanup"
MultipartBegins(c) == calls[c].pc = "create" /\ calls'[c].pc \in {"mread", "await"}
PartUploadStarts(c) ==
    /\ calls[c].pc = "mread"
    /\ calls'[c].pc \in {"mread", "await"}
    /\ Len(calls'[c].uploadPartPromises) > Len(calls[c].uploadPartPromises)
\* C16: within one complete-upload call, on either path, the put of the final
\* object, createMultipartUpload and every uploadPart start only when the call
\* has found a chunk object for every index in [0, N).
C16_ChunksCheckedBeforeMutation ==
    [][\A c \in 1..MaxCalls :
        (PutStarts(c) \/ MultipartBegins(c) \/ PartUploadStarts(c)) =>
            calls[c].i = calls[c].chunks]_vars

\* calls 1 and 2 have both returned and no delete of theirs is outstanding
BothReturned ==
    \A c \in {1, 2} : calls[c].pc = "done" /\ calls[c].pending = {}
\* C17: with a bucket that does not fail and all chunks 0..N-1 stored, two
\* complete-upload calls for the same upload and N, interleaved in any way:
\* once both have returned one of them has answered success and no session or
\* chunk object of the upload is left; the first put of the final object
\* writes the concatenation of chunks 0..N-1 in index order, and every later
\* put writes the same bytes.
C17_ConcurrentCompletion ==
    [][/\ BothReturned' =>
            /\ \E c \in {1, 2} : calls'[c].outcome = "success"
            /\ calls'[1].uploadId = calls'[2].uploadId
            /\ \A key \in DOMAIN store' :
                  ~IsTransientKeyOf(key, calls'[1].uploadId)
       /\ \A c \in 1..MaxCalls :
            Reassembled(c) =>
                /\ Has(store', calls[c].filename)
                /\ Len(store'[calls[c].filename].body) = calls[c].chunks
                /\ IF Has(store, calls[c].filename)
                   THEN store'[calls[c].filename].body
                            = store[calls[c].filename].body
                   ELSE /\ AllPresent(store, calls[c].uploadId, calls[c].chunks)
                        /\ store'[calls[c].filename].body =
                             Flatten(ChunksInOrder(store, calls[c].uploadId,
                                                   calls[c].chunks))]_vars
\* C17 witness: call 1 has answered success and call 2, which had begun
\* before, has found chunk 1 deleted under it; the bucket holds the final
\* object "x" "y" and nothing else
C17_Witness ==
    /\ BothReturned
    /\ calls[1].outcome = "success"
    /\ calls[2].outcome = "MissingChunk"
    /\ calls[2].missing = 1
    /\ DOMAIN store = {<<"a">>}
    /\ store[<<"a">>].body = <<"x", "y">>

\* the object under the session key of upload u is a session record of u, put
\* the way prepare-upload puts it
HoldsSessionRecord(s, u) ==
    /\ s[MetaKey(u)].contentType = <<>>
    /\ \E m \in JSONParse(s[MetaKey(u)].body) : m.uploadId = u
\* C18: the put of a final object never replaces a session object or a chunk
\* object of any upload, whatever filename the client gave; so every session
\* object of an issued upload holds the session record prepare-upload wrote.
C18_FinalWriteSparesTransient ==
    [][/\ \A c \in 1..MaxCalls :
            Reassembled(c) =>
                Untouched({key \in DOMAIN store :
                              IsSessionKeyForm(key) \/ IsChunkKeyForm(key)})
       /\ \A u \in issued' :
            Has(store', MetaKey(u)) => HoldsSessionRecord(store', u)]_vars

\* the step by which cleanupChunks returns to call c, or throws
CleanupReturns(c) == calls[c].pc = "cleanup" /\ calls'[c].pc = "done"
\* the keys whose delete has failed when cleanupChunks returns: none when it
\* returns, the one whose rejection makes it throw otherwise
FailedDeletes(c) ==
    IF calls'[c].outcome = "CleanupFailed"
    THEN calls[c].pending \ calls'[c].pending
    ELSE {}
\* C19: cleanup issues a delete for each of chunks 0..N-1 and for the session,
\* all of them whether or not one fails; and when cleanup returns, every one of
\* these keys whose delete has not failed is absent from the bucket (no other
\* request having written the upload's objects meanwhile).
C19_CleanupDeletesTheRest ==
    [][\A c \in 1..MaxCalls :
        /\ Reassembled(c) =>
              calls'[c].pending = CleanupKeys(calls[c].uploadId, calls[c].chunks)
        /\ (CleanupReturns(c) /\ ~calls[c].dirty) =>
              \A key \in CleanupKeys(calls[c].uploadId, calls[c].chunks)
                            \ FailedDeletes(c) :
                  ~Has(store', key)]_vars

\* the text of a non-negative integer (of those the clients here use)
IsIndexText(text) == \E n \in 0..MaxChunks : text = ToString(n)
\* C20: every chunk object in the bucket is stored under
\* `{uploadId}.chunk.{n}` with n a non-negative integer: upload-chunk writes
\* nothing for a request whose index is absent or is not such a number.
C20_ChunkIndexIsNatural ==
    \A key \in DOMAIN store :
        (Len(key) >= 2 /\ key[2] = "chunk") =>
            Len(key) = 3 /\ IsIndexText(key[3])
====
